---- MODULE Spec2Model ----
(***************************************************************************)
(* Model of .github/test-fixtures/extract-rust-blocks.py: the generator    *)
(* extract_rust_blocks, which walks a Markdown document line by line and   *)
(* yields (line_number, attributes, content) for every fenced Rust block.  *)
(*                                                                         *)
(* A Python str is a sequence of one-character strings; a line is such a   *)
(* sequence without "\n".  One loop iteration (lines 29-54) is one step.   *)
(***************************************************************************)
EXTENDS Integers, Sequences, FiniteSets, TLC

\* Largest number of lines of a scanned document.
MaxLines == 4

\* The backtick character.
BT == "BACKTICK"
NL == "\n"
Fence == <<BT, BT, BT>>

\* The lines documents are built from.
l_rust == Fence \o <<"r", "u", "s", "t">>
l_Rust_attrs == Fence \o <<"R", "u", "s", "t", ",", "i", ",", "n">>
l_RUST == Fence \o <<"R", "U", "S", "T">>
l_Rust == Fence \o <<"R", "u", "s", "t">>
l_close == Fence
l_py == Fence \o <<"p", "y">>
l_rustx == Fence \o <<"r", "u", "s", "t", "x">>
l_rust_sp == Fence \o <<"r", "u", "s", "t", " ", "i">>
l_text == <<"x">>
l_empty == <<>>

LineSet ==
  {l_rust, l_Rust, l_Rust_attrs, l_RUST, l_close, l_py, l_rustx, l_rust_sp, l_text, l_empty}

\* '\n'.join(ls)
RECURSIVE JoinLines(_)
JoinLines(ls) ==
  IF ls = <<>> THEN <<>>
  ELSE IF Len(ls) = 1 THEN ls[1]
  ELSE ls[1] \o <<NL>> \o JoinLines(Tail(ls))

\* s.split('\n'): always at least one element, '' splits into [''].
RECURSIVE SplitLines(_)
SplitLines(s) ==
  IF \E k \in 1..Len(s) : s[k] = NL
  THEN LET k == CHOOSE k \in 1..Len(s) : s[k] = NL /\ \A j \in 1..(k-1) : s[j] # NL
       IN <<SubSeq(s, 1, k-1)>> \o SplitLines(SubSeq(s, k+1, Len(s)))
  ELSE <<s>>

\* The texts of 1..n lines taken from ls.
TextsOf(ls, n) ==
  {JoinLines(d) : d \in UNION {[1..m -> ls] : m \in 1..n}}

\* The documents given to extract_rust_blocks: every text of 1..MaxLines lines.
Documents ==
  TextsOf(LineSet, MaxLines)

\* line.startswith(BT BT BT)
StartsWithFence(line) ==
  Len(line) >= 3 /\ SubSeq(line, 1, 3) = Fence

\* ^BT BT BT [Rr]ust, the common prefix of both regular expressions
MatchFencePrefix(line) ==
  /\ Len(line) >= 7
  /\ SubSeq(line, 1, 3) = Fence
  /\ line[4] \in {"r", "R"}
  /\ SubSeq(line, 5, 7) = <<"u", "s", "t">>

\* Variant of MatchOpeningFence without the anchored tail (,.*)?$ : any
\* line that starts with the fence and the tag matches.
MatchOpeningFence_prefixOnly(line) ==
  MatchFencePrefix(line)

\* re.match of ^BT BT BT [Rr]ust(,.*)?$ ; a line comes out of split('\n')
\* and holds no newline, so .* runs to the end of the line.
MatchOpeningFence(line) ==
  /\ MatchFencePrefix(line)
  /\ IF Len(line) = 7 THEN TRUE ELSE line[8] = ","

\* Variant of FenceAttributes that takes the text after the last comma.
FenceAttributes_afterLastComma(line) ==
  IF MatchFencePrefix(line) /\ Len(line) >= 8 /\ line[8] = ","
  THEN LET c == CHOOSE k \in 8..Len(line) :
                  line[k] = "," /\ \A j \in (k+1)..Len(line) : line[j] # ","
       IN SubSeq(line, c + 1, Len(line))
  ELSE <<>>

\* match = re.match of ^BT BT BT [Rr]ust,(.*)$ ;
\* attributes = match.group(1) if match else ""
FenceAttributes(line) ==
  IF MatchFencePrefix(line) /\ Len(line) >= 8 /\ line[8] = ","
  THEN SubSeq(line, 9, Len(line))
  ELSE <<>>

\* The tuple a yield produces.
Block(start, attrs, text) ==
  [start_line |-> start, attributes |-> attrs, content |-> text]

\* The locals of one invocation, with the blocks yielded so far.
InitialLocals ==
  [in_block |-> FALSE, block_start |-> 0, block_content |-> <<>>,
   attributes |-> <<>>, out |-> <<>>]

\* Variant of OpenBlock that records the 0-indexed line number.
OpenBlock_zeroIndexed(st, n, line) ==
  [st EXCEPT !.in_block = TRUE,
             !.block_start = n - 1,
             !.block_content = <<>>,
             !.attributes = FenceAttributes(line)]

\* Variant of OpenBlock that does not reset block_content.
OpenBlock_keepsContent(st, n, line) ==
  [st EXCEPT !.in_block = TRUE,
             !.block_start = n,
             !.attributes = FenceAttributes(line)]

\* lines 32-38
OpenBlock(st, n, line) ==
  [st EXCEPT !.in_block = TRUE,
             !.block_start = n,
             !.block_content = <<>>,
             !.attributes = FenceAttributes(line)]

\* Variant of CloseBlock that leaves in_block set after the yield.
CloseBlock_staysInside(st) ==
  [st EXCEPT !.out = Append(@, Block(st.block_start, st.attributes,
                                     JoinLines(st.block_content)))]

\* lines 43-46
CloseBlock(st) ==
  [st EXCEPT !.out = Append(@, Block(st.block_start, st.attributes,
                                     JoinLines(st.block_content))),
             !.in_block = FALSE]

\* Variant of OtherLine without the nested-fence test of lines 53-54.
OtherLine_staysInside(st, line) ==
  IF st.in_block
  THEN [st EXCEPT !.block_content = Append(@, line)]
  ELSE st

\* Variant of OtherLine that accumulates the line without testing in_block.
OtherLine_appendsOutside(st, line) ==
  LET acc == [st EXCEPT !.block_content = Append(@, line)]
  IN IF StartsWithFence(line) /\ acc.in_block /\ ~(line = Fence)
     THEN [acc EXCEPT !.in_block = FALSE]
     ELSE acc

\* lines 49-54
OtherLine(st, line) ==
  LET acc == IF st.in_block
             THEN [st EXCEPT !.block_content = Append(@, line)]
             ELSE st
  IN IF StartsWithFence(line) /\ acc.in_block /\ ~(line = Fence)
     THEN [acc EXCEPT !.in_block = FALSE]
     ELSE acc

\* Variant of UnclosedAtEOF that yields nothing for an unclosed block.
UnclosedAtEOF_dropsBlock(st) ==
  st

\* Variant of UnclosedAtEOF that tests for accumulated lines instead of
\* in_block alone.
UnclosedAtEOF_emitsDropped(st) ==
  IF st.in_block \/ st.block_content # <<>>
  THEN [st EXCEPT !.out = Append(@, Block(st.block_start, st.attributes,
                                          JoinLines(st.block_content)))]
  ELSE st

\* lines 57-59
UnclosedAtEOF(st) ==
  IF st.in_block
  THEN [st EXCEPT !.out = Append(@, Block(st.block_start, st.attributes,
                                          JoinLines(st.block_content)))]
  ELSE st

\* One iteration of the for loop, lines 29-54.
LoopBody(st, n, line) ==
  IF MatchOpeningFence(line) THEN OpenBlock(st, n, line)
  ELSE IF line = Fence /\ st.in_block THEN CloseBlock(st)
  ELSE OtherLine(st, line)

\* The whole generator run to exhaustion: list(extract_rust_blocks(content)).
RECURSIVE ScanFrom(_, _, _)
ScanFrom(st, ls, n) ==
  IF n > Len(ls) THEN UnclosedAtEOF(st).out
  ELSE ScanFrom(LoopBody(st, n, ls[n]), ls, n + 1)

extract_rust_blocks(text) ==
  ScanFrom(InitialLocals, SplitLines(text), 1)

\* The frame of a second invocation of the generator that has not begun.
IdleFrame ==
  [content |-> <<>>, lines |-> <<>>, i |-> 0, st |-> InitialLocals, pc |-> "idle"]

\* Variant of NewFrame whose locals are left over from the invocation
\* before, as module-level names would be.
NewFrame_staleLocals(text, old) ==
  [content |-> text, lines |-> SplitLines(text), i |-> 1,
   st |-> [old EXCEPT !.out = <<>>], pc |-> "loop"]

\* lines 23-27: the frame of an invocation on entry to the loop; old are
\* the locals of the invocation that ran before it.
NewFrame(text, old) ==
  [content |-> text, lines |-> SplitLines(text), i |-> 1,
   st |-> InitialLocals, pc |-> "loop"]

\* The exit status of a process that is still running.
NotExited == -1

TAB == "\t"
NUL == "NUL"

\* content, lines .. pc: the invocation of extract_rust_blocks under study
\*   (content is also the local of main that holds the text read);
\* other: the frame of a second invocation;
\* argv, file: the command line and what opening and reading the named
\*   file gives; mpc .. consumed: the process running main.
VARIABLES content, lines, i, in_block, block_start, block_content,
          attributes, out, pc,
          other,
          argv, file, mpc, stdout, stderr, exit_code, unhandled, consumed

scanvars == <<content, lines, i, in_block, block_start, block_content,
              attributes, out, pc>>

mainvars == <<argv, file, mpc, stdout, stderr, exit_code, unhandled, consumed>>

vars == <<scanvars, other, mainvars>>

Locals ==
  [in_block |-> in_block, block_start |-> block_start,
   block_content |-> block_content, attributes |-> attributes, out |-> out]

SetLocals(st) ==
  /\ in_block' = st.in_block
  /\ block_start' = st.block_start
  /\ block_content' = st.block_content
  /\ attributes' = st.attributes
  /\ out' = st.out

\* No process runs main: extract_rust_blocks is called directly.
MainIdle ==
  /\ argv = <<>>
  /\ file = [kind |-> "none"]
  /\ mpc = "idle"
  /\ stdout = <<>>
  /\ stderr = <<>>
  /\ exit_code = NotExited
  /\ unhandled = "none"
  /\ consumed = 0

\* lines 23-27: the state on entry to the loop
Init ==
  /\ content \in Documents
  /\ other = IdleFrame
  /\ MainIdle
  /\ lines = SplitLines(content)
  /\ i = 1
  /\ in_block = InitialLocals.in_block
  /\ block_start = InitialLocals.block_start
  /\ block_content = InitialLocals.block_content
  /\ attributes = InitialLocals.attributes
  /\ out = InitialLocals.out
  /\ pc = "loop"

\* lines 31-38: the line is an opening fence
OpeningFenceLine ==
  /\ pc = "loop" /\ i <= Len(lines)
  /\ MatchOpeningFence(lines[i])
  /\ SetLocals(OpenBlock(Locals, i, lines[i]))
  /\ i' = i + 1
  /\ UNCHANGED <<content, lines, pc, other, mainvars>>

\* lines 41-46: the line closes the open block, which is yielded
ClosingFenceLine ==
  /\ pc = "loop" /\ i <= Len(lines)
  /\ ~MatchOpeningFence(lines[i])
  /\ lines[i] = Fence /\ in_block
  /\ SetLocals(CloseBlock(Locals))
  /\ i' = i + 1
  /\ UNCHANGED <<content, lines, pc, other, mainvars>>

\* Variant of ContentLine that steps over the following line.
ContentLine_skipsLine ==
  /\ pc = "loop" /\ i <= Len(lines)
  /\ ~MatchOpeningFence(lines[i])
  /\ ~(lines[i] = Fence /\ in_block)
  /\ SetLocals(OtherLine(Locals, lines[i]))
  /\ i' = i + 2
  /\ UNCHANGED <<content, lines, pc, other, mainvars>>

\* lines 49-54: any other line
ContentLine ==
  /\ pc = "loop" /\ i <= Len(lines)
  /\ ~MatchOpeningFence(lines[i])
  /\ ~(lines[i] = Fence /\ in_block)
  /\ SetLocals(OtherLine(Locals, lines[i]))
  /\ i' = i + 1
  /\ UNCHANGED <<content, lines, pc, other, mainvars>>

\* lines 57-59: the loop is exhausted; an unclosed block is yielded
EndOfDocument ==
  /\ pc = "loop" /\ i > Len(lines)
  /\ SetLocals(UnclosedAtEOF(Locals))
  /\ pc' = "done"
  /\ UNCHANGED <<content, lines, i, other, mainvars>>

\* The locals of the second invocation.
OtherLocals_shared ==
  [other.st EXCEPT !.in_block = in_block]

OtherLocals ==
  other.st

\* A second call extract_rust_blocks(content) after the first is exhausted.
ScanAgain ==
  /\ pc = "done" /\ other.pc = "idle"
  /\ other' = NewFrame(content, Locals)
  /\ UNCHANGED <<scanvars, mainvars>>

\* lines 29-54 in the second invocation: one iteration of its loop
OtherScanLine ==
  /\ other.pc = "loop" /\ other.i <= Len(other.lines)
  /\ other' = [other EXCEPT
                 !.st = LoopBody(OtherLocals, other.i, other.lines[other.i]),
                 !.i = @ + 1]
  /\ UNCHANGED <<scanvars, mainvars>>

\* lines 57-59 in the second invocation
OtherEndOfDocument ==
  /\ other.pc = "loop" /\ other.i > Len(other.lines)
  /\ other' = [other EXCEPT !.st = UnclosedAtEOF(OtherLocals), !.pc = "done"]
  /\ UNCHANGED <<scanvars, mainvars>>

Next ==
  \/ OpeningFenceLine
  \/ ClosingFenceLine
  \/ ContentLine
  \/ EndOfDocument

Spec == Init /\ [][Next]_vars

\* The for loop and the code after it run without suspension until the
\* generator is exhausted.
SpecFair == Spec /\ WF_vars(Next)

\* Largest number of lines of a document that is scanned twice.
MaxRescanLines == 3

InitTwice ==
  /\ content \in TextsOf(LineSet, MaxRescanLines)
  /\ other = IdleFrame
  /\ MainIdle
  /\ lines = SplitLines(content)
  /\ i = 1
  /\ in_block = InitialLocals.in_block
  /\ block_start = InitialLocals.block_start
  /\ block_content = InitialLocals.block_content
  /\ attributes = InitialLocals.attributes
  /\ out = InitialLocals.out
  /\ pc = "loop"

NextTwice ==
  \/ OpeningFenceLine
  \/ ClosingFenceLine
  \/ ContentLine
  \/ EndOfDocument
  \/ ScanAgain
  \/ OtherScanLine
  \/ OtherEndOfDocument

\* Two scans of one document, the second begun when the first is exhausted.
SpecTwice == InitTwice /\ [][NextTwice]_vars

\* Largest number of lines of the two documents scanned side by side.
MaxPairLines == 2

PairLineSet ==
  {l_rust, l_Rust_attrs, l_close, l_py, l_text}

InitPair ==
  /\ content \in TextsOf(PairLineSet, MaxPairLines)
  /\ other \in {NewFrame(d, InitialLocals) : d \in TextsOf(PairLineSet, MaxPairLines)}
  /\ MainIdle
  /\ lines = SplitLines(content)
  /\ i = 1
  /\ in_block = InitialLocals.in_block
  /\ block_start = InitialLocals.block_start
  /\ block_content = InitialLocals.block_content
  /\ attributes = InitialLocals.attributes
  /\ out = InitialLocals.out
  /\ pc = "loop"

NextPair ==
  \/ OpeningFenceLine
  \/ ClosingFenceLine
  \/ ContentLine
  \/ EndOfDocument
  \/ OtherScanLine
  \/ OtherEndOfDocument

\* Two invocations over two documents, their steps interleaved at will.
SpecPair == InitPair /\ [][NextPair]_vars

\* Largest number of lines of the file given to main.
MaxFileLines == 3

\* sys.argv: the script alone, with one argument, with two arguments.
ArgvSet ==
  {<<"extract-rust-blocks.py">>,
   <<"extract-rust-blocks.py", "doc.md">>,
   <<"extract-rust-blocks.py", "doc.md", "more.md">>}

\* What open(markdown_file, 'r', encoding='utf-8') and f.read() give: no
\* such file, another OSError, bytes that are not UTF-8, or the text.
FileStates ==
  {[kind |-> k, text |-> <<>>] : k \in {"missing", "ioerror", "undecodable"}}
    \cup {[kind |-> "text", text |-> t] : t \in TextsOf(LineSet, MaxFileLines)}

\* str() of a line number, as the f-string of line 84 formats it.
RECURSIVE IntToStr(_)
IntToStr(n) ==
  IF n < 10
  THEN <<(<<"0", "1", "2", "3", "4", "5", "6", "7", "8", "9">>)[n + 1]>>
  ELSE IntToStr(n \div 10) \o IntToStr(n % 10)

\* Variant of Record in the format of the module docstring, line 8.
Record_tripleColon(b) ==
  IntToStr(b.start_line) \o <<":", ":", ":">> \o b.attributes
    \o <<":", ":", ":">> \o b.content \o <<NUL>>

\* line 84: the text written for one block
Record(b) ==
  IntToStr(b.start_line) \o <<TAB>> \o b.attributes \o <<TAB>> \o b.content
    \o <<NUL>>

\* The lines print(..., file=sys.stderr) writes, each a list of pieces.
UsageMessage ==
  <<"Usage: extract-rust-blocks.py <markdown-file>">>

NotFoundMessage(path) ==
  <<"Error: File not found: ", path>>

ReadErrorMessage ==
  <<"Error reading file: ", "OSError">>

\* What the interpreter writes for an exception that leaves main.
Traceback ==
  << <<"Traceback (most recent call last):">>,
     <<"  File extract-rust-blocks.py, line 72, in main">>,
     <<"UnicodeDecodeError: 'utf-8' codec can't decode byte">> >>

\* The process at line 64, nothing read and nothing scanned yet.
InitMain ==
  /\ argv \in ArgvSet
  /\ file \in FileStates
  /\ mpc = "start"
  /\ stdout = <<>>
  /\ stderr = <<>>
  /\ exit_code = NotExited
  /\ unhandled = "none"
  /\ consumed = 0
  /\ content = <<>>
  /\ lines = <<>>
  /\ i = 0
  /\ in_block = InitialLocals.in_block
  /\ block_start = InitialLocals.block_start
  /\ block_content = InitialLocals.block_content
  /\ attributes = InitialLocals.attributes
  /\ out = InitialLocals.out
  /\ pc = "idle"
  /\ other = IdleFrame

\* lines 64-66: wrong number of arguments
MainUsageError ==
  /\ mpc = "start" /\ Len(argv) # 2
  /\ stderr' = Append(stderr, UsageMessage)
  /\ exit_code' = 1
  /\ mpc' = "exited"
  /\ UNCHANGED <<scanvars, other, argv, file, stdout, unhandled, consumed>>

\* lines 68-75: open raises FileNotFoundError
MainFileNotFound ==
  /\ mpc = "start" /\ Len(argv) = 2
  /\ file.kind = "missing"
  /\ stderr' = Append(stderr, NotFoundMessage(argv[2]))
  /\ exit_code' = 1
  /\ mpc' = "exited"
  /\ UNCHANGED <<scanvars, other, argv, file, stdout, unhandled, consumed>>

\* lines 68-72, 76-78: open or read raises another OSError (IOError)
MainIOError ==
  /\ mpc = "start" /\ Len(argv) = 2
  /\ file.kind = "ioerror"
  /\ stderr' = Append(stderr, ReadErrorMessage)
  /\ exit_code' = 1
  /\ mpc' = "exited"
  /\ UNCHANGED <<scanvars, other, argv, file, stdout, unhandled, consumed>>

\* lines 68-72: f.read() raises UnicodeDecodeError, a ValueError that
\* neither except clause (lines 73, 76) names: it leaves main, and the
\* interpreter prints the traceback and exits with status 1.
MainDecodeError ==
  /\ mpc = "start" /\ Len(argv) = 2
  /\ file.kind = "undecodable"
  /\ unhandled' = "UnicodeDecodeError"
  /\ stderr' = stderr \o Traceback
  /\ exit_code' = 1
  /\ mpc' = "exited"
  /\ UNCHANGED <<scanvars, other, argv, file, stdout, consumed>>

\* lines 68-72: the file is read
MainReadFile ==
  /\ mpc = "start" /\ Len(argv) = 2
  /\ file.kind = "text"
  /\ content' = file.text
  /\ mpc' = "write"
  /\ UNCHANGED <<lines, i, in_block, block_start, block_content, attributes,
                 out, pc, other, argv, file, stdout, stderr, exit_code,
                 unhandled, consumed>>

\* lines 82-84: the generator yields its next block, which is written
MainWriteBlock ==
  /\ mpc = "write"
  /\ consumed < Len(extract_rust_blocks(content))
  /\ stdout' = stdout \o Record(extract_rust_blocks(content)[consumed + 1])
  /\ consumed' = consumed + 1
  /\ UNCHANGED <<scanvars, other, argv, file, mpc, stderr, exit_code, unhandled>>

\* line 82 and the end of main: the generator is exhausted
MainReturn ==
  /\ mpc = "write"
  /\ consumed = Len(extract_rust_blocks(content))
  /\ exit_code' = 0
  /\ mpc' = "exited"
  /\ UNCHANGED <<scanvars, other, argv, file, stdout, stderr, unhandled, consumed>>

NextMain ==
  \/ MainUsageError
  \/ MainFileNotFound
  \/ MainIOError
  \/ MainDecodeError
  \/ MainReadFile
  \/ MainWriteBlock
  \/ MainReturn

\* One run of the script, lines 62-88.
SpecMain == InitMain /\ [][NextMain]_vars

TypeOK ==
  /\ Len(lines) \in 1..MaxLines
  /\ \A k \in 1..Len(lines) : lines[k] \in LineSet
  /\ i \in 1..(MaxLines + 1)
  /\ in_block \in BOOLEAN
  /\ block_start \in 0..MaxLines
  /\ pc \in {"loop", "done"}
(***************************************************************************)
(* Vocabulary of the properties, stated on the document alone.             *)
(***************************************************************************)

\* The line starts with three backticks.
HasFencePrefix(line) ==
  Len(line) >= 3 /\ \A k \in 1..3 : line[k] = BT

\* The line is exactly three backticks.
IsClosingFence(line) ==
  Len(line) = 3 /\ HasFencePrefix(line)

LowerCase(c) ==
  CASE c = "R" -> "r" [] c = "U" -> "u" [] c = "S" -> "s" [] c = "T" -> "t"
    [] OTHER -> c

\* Three backticks, the tag rust in any letter case, then end of line or a
\* comma and an attribute string.
IsOpeningFenceLine(line) ==
  /\ Len(line) >= 7
  /\ HasFencePrefix(line)
  /\ [k \in 1..4 |-> LowerCase(line[k + 3])] = <<"r", "u", "s", "t">>
  /\ (Len(line) > 7 => line[8] = ",")

\* The same line with its tag written rust.
WithLowerCaseTag(line) ==
  IF IsOpeningFenceLine(line)
  THEN [k \in 1..Len(line) |-> IF k \in 4..7 THEN LowerCase(line[k]) ELSE line[k]]
  ELSE line

\* The text after the first comma of the line, empty without a comma.
AfterFirstComma(line) ==
  IF \E k \in 1..Len(line) : line[k] = ","
  THEN LET c == CHOOSE k \in 1..Len(line) :
                  line[k] = "," /\ \A j \in 1..(k-1) : line[j] # ","
       IN [k \in 1..(Len(line) - c) |-> line[c + k]]
  ELSE <<>>

\* The lines joined with a newline between neighbours.
RECURSIVE NewlineJoined(_)
NewlineJoined(ls) ==
  IF Len(ls) = 0 THEN <<>>
  ELSE IF Len(ls) = 1 THEN ls[1]
  ELSE NewlineJoined(SubSeq(ls, 1, Len(ls) - 1)) \o <<NL>> \o ls[Len(ls)]

\* Lines a+1 .. b-1 of the document.
LinesBetween(a, b) ==
  [k \in 1..(b - a - 1) |-> lines[a + k]]

\* The first line after s that starts with three backticks, 0 if none.
FirstFenceAfter(s) ==
  IF \E t \in (s+1)..Len(lines) : HasFencePrefix(lines[t])
  THEN CHOOSE t \in (s+1)..Len(lines) :
         HasFencePrefix(lines[t]) /\ \A j \in (s+1)..(t-1) : ~HasFencePrefix(lines[j])
  ELSE 0

OpeningFencePositions ==
  {s \in 1..Len(lines) : IsOpeningFenceLine(lines[s])}

StartLines ==
  {out[k].start_line : k \in 1..Len(out)}

\* A step of the scan that yields a block.
Emits ==
  Len(out') = Len(out) + 1 /\ SubSeq(out', 1, Len(out)) = out

LastOf(seq) ==
  seq[Len(seq)]

(***************************************************************************)
(* C1                                                                      *)
(***************************************************************************)

\* Every opening fence is followed by an exact closing fence with no line
\* starting with three backticks between them.
ProperlyClosed ==
  \A s \in OpeningFencePositions :
    FirstFenceAfter(s) # 0 /\ IsClosingFence(lines[FirstFenceAfter(s)])

\* C1: a document whose N target-language opening fences are all properly
\* closed yields exactly N blocks, one per opening fence, in increasing
\* order of opening line.
C1_OneBlockPerClosedFence ==
  (pc = "done" /\ ProperlyClosed) =>
    /\ Len(out) = Cardinality(OpeningFencePositions)
    /\ StartLines = OpeningFencePositions
    /\ \A j, k \in 1..Len(out) : j < k => out[j].start_line < out[k].start_line

(***************************************************************************)
(* C2                                                                      *)
(***************************************************************************)

\* C2: the start_line of every block, when it is emitted (on a closing
\* fence or at end-of-document), is the line number of an opening fence,
\* the one that most recently put the scanner INSIDE: the scanner is INSIDE,
\* start_line is its block_start and no opening fence lies between that
\* line and the line of the emission.
C2_StartLineIsOpeningFence ==
  [][Emits =>
       LET s == LastOf(out').start_line
       IN /\ s \in 1..(i - 1)
          /\ IsOpeningFenceLine(lines[s])
          /\ in_block /\ s = block_start
          /\ \A j \in (s+1)..(i-1) : ~IsOpeningFenceLine(lines[j])]_vars

\* A block was emitted whose opening fence is not the first of the document.
C2_Witness ==
  \E k \in 1..Len(out) :
    \E j \in 1..(out[k].start_line - 1) : IsOpeningFenceLine(lines[j])

(***************************************************************************)
(* C3                                                                      *)
(***************************************************************************)

C4_AttributesAfterFirstComma ==
  \A k \in 1..Len(out) :
    /\ out[k].start_line \in 1..Len(lines)
    /\ out[k].attributes = AfterFirstComma(lines[out[k].start_line])

\* A block with attributes i,n is followed by a block of a fence without
\* attributes.
C4_Witness ==
  \E j, k \in 1..Len(out) :
    /\ j < k
    /\ out[j].attributes = <<"i", ",", "n">>
    /\ lines[out[k].start_line] = l_rust
    /\ out[k].attributes = <<>>

(***************************************************************************)
(* C5                                                                      *)
(***************************************************************************)

\* The last line of the document that starts with three backticks, 0 if none.
LastFenceLine ==
  IF \E t \in 1..Len(lines) : HasFencePrefix(lines[t])
  THEN CHOOSE t \in 1..Len(lines) :
         HasFencePrefix(lines[t]) /\ \A j \in (t+1)..Len(lines) : ~HasFencePrefix(lines[j])
  ELSE 0

\* C5: when the scanner is INSIDE after the last line, exactly one further
\* block is emitted, last in the output: its start_line is the line of the
\* fence that opened it, its attributes are that fence's, and its content
\* is every line after the opening line up to the last line of the
\* document, joined with a newline.
C5_UnclosedBlockEmittedAtEOF ==
  [][(pc = "loop" /\ i > Len(lines) /\ in_block) =>
       LET s == LastFenceLine
       IN /\ s # 0 /\ IsOpeningFenceLine(lines[s])
          /\ out' = Append(out, [start_line |-> s,
                                 attributes |-> AfterFirstComma(lines[s]),
                                 content |-> NewlineJoined(LinesBetween(s, Len(lines) + 1))])
          /\ pc' = "done"]_vars

\* The scan ended INSIDE: after an earlier closed block, the fence on the
\* last but one line is unclosed and the last line is its content.
C5_Witness ==
  /\ pc = "done" /\ in_block
  /\ Len(out) = 2
  /\ out[2].start_line = Len(lines) - 1
  /\ out[2].content = lines[Len(lines)]
  /\ Len(out[2].content) > 0

(***************************************************************************)
(* C6                                                                      *)
(***************************************************************************)

\* After the opening fence at s, and before any exact closing fence, comes
\* a line that starts with three backticks and is not the closing fence.
NestedFenceAfter(s) ==
  \E t \in (s+1)..Len(lines) :
    /\ HasFencePrefix(lines[t]) /\ ~IsClosingFence(lines[t])
    /\ \A j \in (s+1)..(t-1) : ~IsClosingFence(lines[j])

\* C6: an opening fence followed, before any exact closing fence, by a
\* second opening fence of any language is never the start_line of an
\* emitted block, and the scan is in no other position than running or
\* finished.
C6_NestedFenceDropsBlock ==
  /\ pc \in {"loop", "done"}
  /\ \A s \in OpeningFencePositions :
       NestedFenceAfter(s) => s \notin StartLines

\* The scan is finished over a document where a fence of another language
\* follows the opening fence and an exact closing fence comes later.
C6_Witness ==
  /\ pc = "done"
  /\ \E s \in OpeningFencePositions :
       /\ NestedFenceAfter(s)
       /\ lines[FirstFenceAfter(s)] = l_py
       /\ \E e \in (FirstFenceAfter(s) + 1)..Len(lines) : IsClosingFence(lines[e])

(***************************************************************************)
(* C7                                                                      *)
(***************************************************************************)

\* C7: whenever the scanner is INSIDE and the current line starts with
\* three backticks but is not exactly the closing fence (a fence of any
\* language, the target language included), the scanner is OUTSIDE when it
\* examines the next line.
C7_NestedFenceLeavesBlock ==
  [][(pc = "loop" /\ i <= Len(lines) /\ in_block
        /\ HasFencePrefix(lines[i]) /\ ~IsClosingFence(lines[i]))
       => ~in_block']_vars

(***************************************************************************)
(* C8                                                                      *)
(***************************************************************************)

\* The document with the tag of every opening fence written rust.
LowerCaseTagLines ==
  [k \in 1..Len(lines) |-> WithLowerCaseTag(lines[k])]

\* C8: the tag is matched case-insensitively: writing the tag of the
\* opening fences in another letter case leaves the emitted blocks
\* unchanged, and every letter-case variant of rust followed by end-of-line
\* or by a comma and attributes opens a block when the scanner is OUTSIDE.
C8_TagIsCaseInsensitive ==
  /\ [](pc = "done" =>
          out = extract_rust_blocks(NewlineJoined(LowerCaseTagLines)))
  /\ [][(pc = "loop" /\ i <= Len(lines) /\ ~in_block
           /\ IsOpeningFenceLine(lines[i]))
          => (in_block' /\ block_start' = i)]_vars

(***************************************************************************)
(* C9                                                                      *)
(***************************************************************************)

\* Three backticks followed by something that is neither the end of the
\* line nor the tag with end of line or a comma: rustx, rust i, py.
IsOtherFenceLine(line) ==
  HasFencePrefix(line) /\ ~IsClosingFence(line) /\ ~IsOpeningFenceLine(line)

\* C9: a fence line whose tag is followed by anything but end-of-line or a
\* comma, or that names another language, opens no block: an OUTSIDE
\* scanner stays OUTSIDE after it and emits nothing, no emitted block
\* starts at such a line, and the fences Rust and rust open a block alike.
C9_OtherFenceOpensNothing ==
  /\ [](\A k \in 1..Len(out) : ~IsOtherFenceLine(lines[out[k].start_line]))
  /\ [][(pc = "loop" /\ i <= Len(lines) /\ ~in_block
           /\ IsOtherFenceLine(lines[i]))
          => (~in_block' /\ out' = out)]_vars
  /\ [][(pc = "loop" /\ i <= Len(lines) /\ lines[i] \in {l_rust, l_Rust})
          => /\ in_block' /\ block_start' = i
             /\ block_content' = <<>> /\ attributes' = <<>>
             /\ out' = out]_vars

\* The scan is finished, without a block, over a document that starts with
\* the fence rustx, a content line and a closing fence.
C9_Witness ==
  /\ pc = "done" /\ out = <<>>
  /\ Len(lines) >= 3
  /\ lines[1] = l_rustx /\ lines[2] = l_text /\ IsClosingFence(lines[3])

(***************************************************************************)
(* C10                                                                     *)
(***************************************************************************)

BlocksStartingAt(s) ==
  {k \in 1..Len(out) : out[k].start_line = s}

\* C10: every opening-fence line is the start_line of at most one emitted
\* block, and of exactly one if and only if the first line after it that
\* starts with three backticks is an exact closing fence, or there is none.
C10_EmittedOnceIffNotDropped ==
  pc = "done" =>
    \A s \in OpeningFencePositions :
      /\ Cardinality(BlocksStartingAt(s)) <= 1
      /\ Cardinality(BlocksStartingAt(s)) = 1
           <=> (FirstFenceAfter(s) = 0 \/ IsClosingFence(lines[FirstFenceAfter(s)]))

(***************************************************************************)
(* C11                                                                     *)
(***************************************************************************)

\* C11: blocks never overlap: the start_line values of the output are
\* strictly increasing, the closing fence that finalized an earlier block
\* lies strictly before the start_line of every later block, and the one
\* open block starts after every emitted block was finalized.
C11_BlocksNeverOverlap ==
  /\ \A j, k \in 1..Len(out) :
       j < k =>
         /\ out[j].start_line < out[k].start_line
         /\ FirstFenceAfter(out[j].start_line) # 0
         /\ IsClosingFence(lines[FirstFenceAfter(out[j].start_line)])
         /\ FirstFenceAfter(out[j].start_line) < out[k].start_line
  /\ (pc = "loop" /\ in_block) =>
       \A k \in 1..Len(out) :
         /\ out[k].start_line < block_start
         /\ FirstFenceAfter(out[k].start_line) # 0
         /\ FirstFenceAfter(out[k].start_line) < block_start

\* Two blocks were emitted, opened at lines 1 and 3.
C11_Witness ==
  /\ Len(out) = 2
  /\ out[1].start_line = 1 /\ out[2].start_line = 3

(***************************************************************************)
(* C18                                                                     *)
(***************************************************************************)

\* C18: while the scanner is OUTSIDE, a line that is not an opening fence
\* (an exact closing fence, a fence of another language, ordinary text)
\* emits no block and leaves the scanner OUTSIDE with block_start, the
\* accumulated lines and the pending attributes unchanged.
C18_OutsideLineChangesNothing ==
  [][(pc = "loop" /\ i <= Len(lines) /\ ~in_block
        /\ ~IsOpeningFenceLine(lines[i]))
       => /\ ~in_block'
          /\ out' = out
          /\ block_start' = block_start
          /\ block_content' = block_content
          /\ attributes' = attributes]_vars

\* The closing fence on line 3 was examined OUTSIDE, after the block opened
\* on line 1 was dropped by the fence py on line 2: nothing was closed.
C18_Witness ==
  /\ pc = "loop" /\ i = 4 /\ ~in_block
  /\ lines[1] = l_Rust_attrs /\ lines[2] = l_py /\ IsClosingFence(lines[3])
  /\ out = <<>>
  /\ block_start = 1 /\ block_content = <<l_py>> /\ attributes = <<"i", ",", "n">>

(***************************************************************************)
(* C19                                                                     *)
(***************************************************************************)

\* Line t is an opening fence met while the block of an earlier opening
\* fence is still open: the nearest fence line before t is an opening fence.
OpensInsideBlock(t) ==
  /\ IsOpeningFenceLine(lines[t])
  /\ \E s \in 1..(t-1) :
       /\ IsOpeningFenceLine(lines[s])
       /\ \A j \in (s+1)..(t-1) : ~HasFencePrefix(lines[j])

\* The line that ends the block opened at t: the next fence line, or the
\* line after the last one.
EndLineOf(t) ==
  IF FirstFenceAfter(t) = 0 THEN Len(lines) + 1 ELSE FirstFenceAfter(t)

\* C19: a target-language opening fence at line t met while INSIDE
\* discards the open block without emission and opens a new one: the
\* scanner stays INSIDE with block_start = t, no accumulated lines and the
\* attributes of line t, and the lines after t up to the next exact closing
\* fence, or the end of the document, are emitted as a block with
\* start_line t.
C19_NestedTargetFenceReopens ==
  /\ [][(pc = "loop" /\ i <= Len(lines) /\ in_block
           /\ IsOpeningFenceLine(lines[i]))
          => /\ in_block' /\ block_start' = i
             /\ block_content' = <<>>
             /\ attributes' = AfterFirstComma(lines[i])
             /\ out' = out]_vars
  /\ [](pc = "done" =>
          \A t \in 1..Len(lines) :
            (/\ OpensInsideBlock(t)
             /\ (FirstFenceAfter(t) = 0 \/ IsClosingFence(lines[EndLineOf(t)])))
            => \E k \in 1..Len(out) :
                 /\ out[k].start_line = t
                 /\ out[k].content = NewlineJoined(LinesBetween(t, EndLineOf(t))))

(***************************************************************************)
(* C20                                                                     *)
(***************************************************************************)

\* The lines of a text, cut at its newlines.
RECURSIVE NewlineSplit(_)
NewlineSplit(text) ==
  IF \E k \in 1..Len(text) : text[k] = NL
  THEN LET k == CHOOSE k \in 1..Len(text) :
                  text[k] = NL /\ \A j \in (k+1)..Len(text) : text[j] # NL
       IN Append(NewlineSplit([j \in 1..(k-1) |-> text[j]]),
                 [j \in 1..(Len(text) - k) |-> text[k + j]])
  ELSE <<text>>

\* C20: no line of the content of an emitted block starts with three
\* backticks, whether the block was emitted on a closing fence or at the
\* end of the document, and whatever was dropped before it.
C20_ContentHoldsNoFenceLine ==
  \A k \in 1..Len(out) :
    \A n \in 1..Len(NewlineSplit(out[k].content)) :
      ~HasFencePrefix(NewlineSplit(out[k].content)[n])

\* A block with content x was emitted at the end of the document, after
\* the block opened on line 1 was dropped with the fence py accumulated.
C20_Witness ==
  /\ pc = "done" /\ Len(lines) = 4
  /\ lines[1] = l_rust /\ lines[2] = l_py
  /\ Len(out) = 1 /\ out[1].start_line = 3 /\ out[1].content = <<"x">>

(***************************************************************************)
(* C14                                                                     *)
(***************************************************************************)

\* C14: the scan of every document terminates: the lines are examined one
\* after the other, each once, and after the last line the scan is
\* finished, having passed through no position but running and finished.
C14_ScanTerminates ==
  /\ <>(pc = "done")
  /\ [][(pc = "loop" /\ i <= Len(lines)) => (i' = i + 1 /\ pc' = "loop")]_vars
  /\ [][(pc = "loop" /\ i > Len(lines)) => (i' = i /\ pc' = "done")]_vars
  /\ [](pc \in {"loop", "done"})
  /\ [](pc = "done" => i = Len(lines) + 1)
  /\ [][pc = "done" => UNCHANGED vars]_vars

\* The scan of a document of MaxLines lines is finished with a block.
C14_Witness ==
  pc = "done" /\ Len(lines) = MaxLines /\ i = MaxLines + 1 /\ Len(out) >= 1

(***************************************************************************)
(* C12                                                                     *)
(***************************************************************************)

RECURSIVE DecimalNumeral(_)
DecimalNumeral(n) ==
  LET d == CASE n % 10 = 0 -> "0" [] n % 10 = 1 -> "1" [] n % 10 = 2 -> "2"
             [] n % 10 = 3 -> "3" [] n % 10 = 4 -> "4" [] n % 10 = 5 -> "5"
             [] n % 10 = 6 -> "6" [] n % 10 = 7 -> "7" [] n % 10 = 8 -> "8"
             [] OTHER -> "9"
  IN IF n < 10 THEN <<d>> ELSE Append(DecimalNumeral(n \div 10), d)

\* One record per block, in order: start line, TAB, attributes, TAB,
\* content, NUL.
RECURSIVE RecordsOf(_)
RecordsOf(blocks) ==
  IF blocks = <<>> THEN <<>>
  ELSE LET b == blocks[Len(blocks)]
       IN RecordsOf(SubSeq(blocks, 1, Len(blocks) - 1))
            \o DecimalNumeral(b.start_line) \o <<TAB>> \o b.attributes
            \o <<TAB>> \o b.content \o <<NUL>>

C16_ExitCodes ==
  mpc = "exited" =>
    IF \/ Len(argv) # 2
       \/ file.kind = "missing"
       \/ file.kind \in {"ioerror", "undecodable"}
    THEN /\ exit_code = 1
         /\ Len(stderr) = 1
         /\ stdout = <<>>
         /\ consumed = 0
    ELSE exit_code = 0

(***************************************************************************)
(* C17                                                                     *)
(***************************************************************************)

\* C17: a UTF-8 decoding failure while reading the file takes the path of
\* the other read failures (one-line diagnostic on stderr, exit code 1,
\* nothing on stdout) and does not leave main as an unhandled error.
C17_DecodeErrorIsHandled ==
  (mpc = "exited" /\ Len(argv) = 2 /\ file.kind = "undecodable") =>
    /\ unhandled = "none"
    /\ stderr = <<ReadErrorMessage>>
    /\ exit_code = 1
    /\ stdout = <<>>

====
